---- MODULE Spec2Model ----
(***************************************************************************)
(* The gratitude journal of src/src/App.tsx and its language context       *)
(* (src/src/context/LanguageContext.tsx) as a state machine.               *)
(*                                                                         *)
(* App.tsx holds two variants of AppContent: lines 16-214 (image and       *)
(* drawing attachments, list starts empty) and lines 239-389 (no           *)
(* attachments, list starts with two seeded entries).  The variable        *)
(* hasAttachments says which one is mounted; it never changes.             *)
(*                                                                         *)
(* A string is a sequence of characters, so "" is << >>.  A handler runs   *)
(* against the state of the latest render (React flushes a discrete event  *)
(* before the next one is dispatched); the one callback that runs later,   *)
(* FileReader.onloadend, keeps the newEntry of the render that created it. *)
(***************************************************************************)
EXTENDS Integers, Sequences, FiniteSets, Bags, TLC

VARIABLES
    hasAttachments, \* which AppContent is mounted (TRUE: lines 16-214)
    language,       \* LanguageProvider's state
    translations,   \* the table the last render of AppContent picked
    entries,        \* useState<GratitudeEntry[]>
    newEntry,       \* the draft
    isAdding,       \* the add form is rendered
    canvasRef,      \* canvasRef.current: << >> is null, <<"canvas">> the mounted canvas
    isDrawing,      \* a drawing gesture is active
    pending,        \* bag of FileReaders whose onloadend has not run yet
    now,            \* the last reading of the wall clock
    submitted,      \* history: the entries created by handleSubmit, oldest first
    untouched,      \* history: a submit has reset the draft and no keystroke followed
    lastOp          \* history: the handler that ran last, "submit", "cancel", "readDone"
                    \* or "toggle"; "other" for a keystroke, a pick, a mouse event or
                    \* the opening of the form

vars == <<hasAttachments, language, translations, entries, newEntry, isAdding,
          canvasRef, isDrawing, pending, now, submitted, untouched, lastOp>>

-----------------------------------------------------------------------------
(* Bounds of the model *)

MaxEntries == 2     \* successful submits in a session
MaxPending == 1     \* file reads in flight at the same time

-----------------------------------------------------------------------------
(* Inputs *)

Empty == << >>

\* e.target.value of the title input and of the description textarea
TitleInputs == { <<" ">>, <<" ", "b", " ">> }
DescriptionInputs == { <<"x">> }

\* e.target.files?.[0]: a file of the user, or nothing selected
Files == { "A" }
NoFile == "none"

-----------------------------------------------------------------------------
(* Pure functions of the code *)

IsWhitespace(c) == c \in { " ", "\t", "\n" }

RECURSIVE TrimStart(_)
TrimStart(s) ==
    IF s = Empty THEN s
    ELSE IF IsWhitespace(Head(s)) THEN TrimStart(Tail(s)) ELSE s

RECURSIVE TrimEnd(_)
TrimEnd(s) ==
    IF s = Empty THEN s
    ELSE IF IsWhitespace(s[Len(s)]) THEN TrimEnd(SubSeq(s, 1, Len(s) - 1)) ELSE s

\* String.prototype.trim
Trim(s) == TrimEnd(TrimStart(s))

\* a string in a condition: "" is false, every other string true
Truthy(s) == Len(s) > 0

\* variant with a fault: the condition without trim
IsValidDraftNoTrim(d) == Truthy(d.title) /\ Truthy(d.description)
\* the condition of handleSubmit
IsValidDraft(d) == Truthy(Trim(d.title)) /\ Truthy(Trim(d.description))

\* the draft handleSubmit sets and useState starts with
EmptyDraft == [title |-> Empty, description |-> Empty, image |-> Empty, drawing |-> Empty]

\* reader.result of readAsDataURL(file)
ReadAsDataURL(file) == <<"data:", file>>

\* canvas.toDataURL(): the raster, which lives in the browser's canvas and not in
\* the component's state, encoded as a PNG data URL; never the empty string
ToDataURL(canvas) == <<"data:image/png">>

\* canvasRef.current?.toDataURL() || ''
DrawingOf(ref) == IF ref = << >> THEN Empty ELSE ToDataURL(ref[1])

\* new Date().toISOString().split('T')[0]; a day of the model lasts two ticks
ToISODate(t) == <<1970, 1, 1 + (t \div 2)>>

\* variants with a fault: the entry put last, and the entry put over the head
AppendEntry(entry, list) == list \o <<entry>>
ReplaceHead(entry, list) == IF list = << >> THEN <<entry>> ELSE <<entry>> \o Tail(list)
\* [entry, ...entries]
Prepend(entry, list) == <<entry>> \o list

\* variants with a fault: the texts stored trimmed, and the image taken from a
\* read still in flight
NewEntryOfSubmitTrimmed(d, t, ref) ==
    [id |-> t, title |-> Trim(d.title), description |-> Trim(d.description),
     date |-> ToISODate(t), image |-> d.image, drawing |-> DrawingOf(ref)]
NewEntryOfSubmitWithPendingImage(d, t, ref) ==
    [id |-> t, title |-> d.title, description |-> d.description,
     date |-> ToISODate(t),
     image |-> IF pending = EmptyBag THEN d.image
               ELSE (CHOOSE p \in BagToSet(pending) : TRUE).result,
     drawing |-> DrawingOf(ref)]
\* { ...newEntry, id: Date.now(), date: ..., drawing: ... }
NewEntryOfSubmit(d, t, ref) ==
    [id |-> t, title |-> d.title, description |-> d.description,
     date |-> ToISODate(t), image |-> d.image, drawing |-> DrawingOf(ref)]

\* variant with a fault: the selector written back unchanged
SameLanguage(l) == l
\* language === 'en' ? 'th' : 'en'
NewLanguage(l) == IF l = "en" THEN "th" ELSE "en"

\* language === 'en' ? enTranslations : thTranslations
TranslationsFor(l) == IF l = "en" THEN "enTranslations" ELSE "thTranslations"

\* useState's initial list; language is 'en' when AppContent mounts
InitialEntries(attachments) ==
    IF attachments THEN << >>
    ELSE << [id |-> 1, title |-> <<"Morning", " ", "Sunshine">>,
             description |-> <<"The", " ", "way", " ", "the", " ", "sunlight">>,
             date |-> <<2023, 11, 15>>, image |-> Empty, drawing |-> Empty],
            [id |-> 2, title |-> <<"Unexpected", " ", "Kindness">>,
             description |-> <<"The", " ", "barista", " ", "remembered">>,
             date |-> <<2023, 11, 14>>, image |-> Empty, drawing |-> Empty] >>

\* { ...newEntry, image: reader.result } with the newEntry onloadend closed over
OnLoadEnd(closure, current, result) == [closure EXCEPT !.image = result]

\* the <canvas> is part of the form: mounted blank with it, gone with it
MountCanvas(ref) == IF ref = << >> THEN << "canvas" >> ELSE ref

-----------------------------------------------------------------------------
(* State machine *)

Init ==
    /\ hasAttachments \in BOOLEAN
    /\ language = "en"
    /\ translations = TranslationsFor("en")
    /\ entries = InitialEntries(hasAttachments)
    /\ newEntry = EmptyDraft
    /\ isAdding = FALSE
    /\ canvasRef = << >>
    /\ isDrawing = FALSE
    /\ pending = EmptyBag
    /\ now = 10
    /\ submitted = << >>
    /\ untouched = FALSE
    /\ lastOp = "other"

\* onClick={() => setIsAdding(true)}, the header button and the empty-state button
OpenForm ==
    /\ isAdding' = TRUE
    /\ canvasRef' = IF hasAttachments THEN MountCanvas(canvasRef) ELSE canvasRef
    /\ lastOp' = "other"
    /\ UNCHANGED <<hasAttachments, language, translations, entries, newEntry,
                   isDrawing, pending, now, submitted, untouched>>

\* onClick={() => setIsAdding(false)}, the cancel button of the form
CancelForm ==
    /\ isAdding
    /\ isAdding' = FALSE
    /\ canvasRef' = << >>
    /\ lastOp' = "cancel"
    /\ UNCHANGED <<hasAttachments, language, translations, entries, newEntry,
                   isDrawing, pending, now, submitted, untouched>>

\* onChange of the title input
ChangeTitle(value) ==
    /\ isAdding
    /\ newEntry' = [newEntry EXCEPT !.title = value]
    /\ untouched' = FALSE
    /\ lastOp' = "other"
    /\ UNCHANGED <<hasAttachments, language, translations, entries, isAdding,
                   canvasRef, isDrawing, pending, now, submitted>>

\* onChange of the description textarea
ChangeDescription(value) ==
    /\ isAdding
    /\ newEntry' = [newEntry EXCEPT !.description = value]
    /\ untouched' = FALSE
    /\ lastOp' = "other"
    /\ UNCHANGED <<hasAttachments, language, translations, entries, isAdding,
                   canvasRef, isDrawing, pending, now, submitted>>

\* handleImageChange: with a file, a FileReader starts and keeps this render's newEntry
handleImageChange(file) ==
    /\ isAdding
    /\ hasAttachments
    /\ IF file # NoFile
       THEN /\ BagCardinality(pending) < MaxPending
            /\ pending' = pending (+) SetToBag({[closure |-> newEntry,
                                                result |-> ReadAsDataURL(file)]})
       ELSE pending' = pending
    /\ lastOp' = "other"
    /\ UNCHANGED <<hasAttachments, language, translations, entries, newEntry,
                   isAdding, canvasRef, isDrawing, now, submitted, untouched>>

\* reader.onloadend of one of the reads in flight
onloadend(p) ==
    /\ BagIn(p, pending)
    /\ pending' = pending (-) SetToBag({p})
    /\ newEntry' = OnLoadEnd(p.closure, newEntry, p.result)
    /\ lastOp' = "readDone"
    /\ UNCHANGED <<hasAttachments, language, translations, entries, isAdding,
                   canvasRef, isDrawing, now, submitted, untouched>>

handleMouseDown ==
    /\ canvasRef # << >>
    /\ isDrawing' = TRUE
    /\ lastOp' = "other"
    /\ UNCHANGED <<hasAttachments, language, translations, entries, newEntry,
                   isAdding, canvasRef, pending, now, submitted, untouched>>

handleMouseUp ==
    /\ canvasRef # << >>
    /\ isDrawing' = FALSE
    /\ lastOp' = "other"
    /\ UNCHANGED <<hasAttachments, language, translations, entries, newEntry,
                   isAdding, canvasRef, pending, now, submitted, untouched>>

\* handleMouseMove: while drawing, strokes to the pointer position on the canvas
\* context; the component's own state is left as it is
handleMouseMove ==
    /\ canvasRef # << >>
    /\ canvasRef' = canvasRef
    /\ lastOp' = "other"
    /\ UNCHANGED <<hasAttachments, language, translations, entries, newEntry,
                   isAdding, isDrawing, pending, now, submitted, untouched>>

\* handleSubmit; t is the clock reading of Date.now(), never before the last one
handleSubmit(t) ==
    /\ isAdding
    /\ lastOp' = "submit"
    /\ IF IsValidDraft(newEntry)
       THEN /\ Len(submitted) < MaxEntries
            /\ LET entry == NewEntryOfSubmit(newEntry, t, canvasRef)
               IN /\ entries' = Prepend(entry, entries)
                  /\ submitted' = Append(submitted, entry)
            /\ newEntry' = EmptyDraft
            /\ isAdding' = FALSE
            /\ canvasRef' = << >>
            /\ now' = t
            /\ untouched' = TRUE
       ELSE /\ t = now
            /\ UNCHANGED <<entries, submitted, newEntry, isAdding, canvasRef,
                           now, untouched>>
    /\ UNCHANGED <<hasAttachments, language, translations, isDrawing, pending>>

\* toggleLanguage, and the render of AppContent that follows it
toggleLanguage ==
    /\ language' = NewLanguage(language)
    /\ translations' = TranslationsFor(language')
    /\ lastOp' = "toggle"
    /\ UNCHANGED <<hasAttachments, entries, newEntry, isAdding, canvasRef,
                   isDrawing, pending, now, submitted, untouched>>

Next ==
    \/ OpenForm
    \/ CancelForm
    \/ \E value \in TitleInputs : ChangeTitle(value)
    \/ \E value \in DescriptionInputs : ChangeDescription(value)
    \/ \E file \in Files \cup {NoFile} : handleImageChange(file)
    \/ \E p \in BagToSet(pending) : onloadend(p)
    \/ handleMouseDown
    \/ handleMouseUp
    \/ handleMouseMove
    \/ \E t \in {now, now + 1} : handleSubmit(t)
    \/ toggleLanguage

Spec == Init /\ [][Next]_vars

-----------------------------------------------------------------------------
(* Properties *)

\* empty or whitespace-only, said without trim
IsBlank(s) == \A i \in 1..Len(s) : s[i] \in { " ", "\t", "\n" }

RECURSIVE Reverse(_)
Reverse(s) == IF s = << >> THEN << >> ELSE Append(Reverse(Tail(s)), Head(s))

AllFieldsEmpty(d) ==
    d.title = << >> /\ d.description = << >> /\ d.image = << >> /\ d.drawing = << >>

\* C1: a submit of a draft whose title and description are both non-blank puts
\* exactly one new entry at the head of the list, the previous list following it
\* unchanged; the entry carries the draft's title and description, and after the
\* submit every field of the draft is empty.
C1_ValidSubmitPrepends ==
    [][ ( /\ lastOp' = "submit"
          /\ ~IsBlank(newEntry.title)
          /\ ~IsBlank(newEntry.description) )
        => /\ Len(entries') = Len(entries) + 1
           /\ Tail(entries') = entries
           /\ Head(entries').title = newEntry.title
           /\ Head(entries').description = newEntry.description
           /\ AllFieldsEmpty(newEntry') ]_vars

\* a valid submit of the draft " b " / "x" has just added a second entry
C1_Witness ==
    /\ lastOp = "submit"
    /\ ~isAdding
    /\ Len(submitted) = 2
    /\ Head(entries).title = <<" ", "b", " ">>
    /\ AllFieldsEmpty(newEntry)

\* C2: a submit of a draft whose title or description is blank changes neither
\* the list nor any field of the draft, and the form stays open.
C2_InvalidSubmitNoOp ==
    [][ ( /\ lastOp' = "submit"
          /\ (IsBlank(newEntry.title) \/ IsBlank(newEntry.description)) )
        => /\ entries' = entries
           /\ newEntry' = newEntry
           /\ isAdding
           /\ isAdding' ]_vars

\* a submit has just been rejected for a whitespace-only title
C2_Witness ==
    /\ lastOp = "submit"
    /\ isAdding
    /\ newEntry.title = <<" ">>
    /\ newEntry.description = <<"x">>
    /\ Len(entries) >= 1

\* C3: the list is the entries created by submits, the latest first, followed by
\* the entries the list started with.
C3_NewestFirst ==
    entries = Reverse(submitted) \o InitialEntries(hasAttachments)

\* two different entries were submitted
C3_Witness ==
    /\ Len(submitted) = 2
    /\ submitted[1] # submitted[2]
    /\ Head(entries) = submitted[2]

\* C4: no step changes or removes an entry of the list; the list changes only by
\* one new entry put at its head.
C4_EntriesImmutable ==
    [][ \/ entries' = entries
        \/ /\ Len(entries') = Len(entries) + 1
           /\ Tail(entries') = entries ]_vars

\* with two entries in the list, a file read that began before the last submit
\* has completed
C4_Witness ==
    /\ lastOp = "readDone"
    /\ Len(submitted) = 2
    /\ Len(entries) >= 2
    /\ newEntry.title # << >>

\* C5: the ids of the list are pairwise different, and a later submit never has a
\* smaller id than an earlier one.
C5_IdsUniqueAndMonotone ==
    /\ \A i, j \in DOMAIN entries : i # j => entries[i].id # entries[j].id
    /\ \A i, j \in DOMAIN submitted : i < j => submitted[i].id <= submitted[j].id

\* C6: after a cancel every field of the draft is empty.
C6_CancelResetsDraft ==
    lastOp = "cancel" => AllFieldsEmpty(newEntry)

\* C7: a title keystroke, a description keystroke and a completed image read each
\* change their own field of the draft and leave the other fields as they were
\* just before.
C7_UpdateTouchesOneField ==
    [][ /\ (\E v \in TitleInputs : ChangeTitle(v))
           => newEntry' = [newEntry EXCEPT !.title = newEntry'.title]
        /\ (\E v \in DescriptionInputs : ChangeDescription(v))
           => newEntry' = [newEntry EXCEPT !.description = newEntry'.description]
        /\ lastOp' = "readDone"
           => newEntry' = [newEntry EXCEPT !.image = newEntry'.image] ]_vars

\* what C8 says of every step but a submit: a pick changes neither the draft nor
\* the list, a pick without a file changes nothing at all, and the draft's image
\* takes a new non-empty value only when a read completes
C8_PickAndRead ==
    /\ (\E f \in Files \cup {NoFile} : handleImageChange(f))
       => UNCHANGED <<newEntry, entries>>
    /\ handleImageChange(NoFile)
       => UNCHANGED <<newEntry, entries, pending, isAdding>>
    /\ (newEntry'.image # newEntry.image /\ newEntry'.image # << >>)
       => lastOp' = "readDone"

C8_SubmitWhilePending ==
    /\ lastOp' = "submit"
    /\ ~IsBlank(newEntry.title)
    /\ ~IsBlank(newEntry.description)
    /\ pending # EmptyBag

\* C8 as stated: C8_PickAndRead, and a valid submit while a read is in flight
\* creates an entry with no image.
C8_Original ==
    [][ /\ C8_PickAndRead
        /\ C8_SubmitWhilePending => Head(entries').image = << >> ]_vars

\* C8 as amended: C8_PickAndRead, and a valid submit while a read is in flight
\* creates an entry with the image the draft held at the submit (none unless an
\* earlier read had completed); the read in flight adds nothing and stays in flight.
C8_Amended ==
    [][ /\ C8_PickAndRead
        /\ C8_SubmitWhilePending
           => /\ Head(entries').image = newEntry.image
              /\ pending' = pending ]_vars

\* a valid submit while a read was in flight has just created an entry that
\* carries the image of an earlier, completed read
C8_Witness ==
    /\ lastOp = "submit"
    /\ ~isAdding
    /\ pending # EmptyBag
    /\ Head(entries).image = <<"data:", "A">>

\* C9: the selector is one of two values and the table of the render is the one
\* of the selector; a toggle yields the other value, so that two toggles give the
\* first value back, and changes neither the list nor the draft nor whether the
\* form is open.
C9_ToggleInvolution ==
    /\ [](/\ language \in {"en", "th"}
          /\ translations = "enTranslations" <=> language = "en"
          /\ translations = "thTranslations" <=> language = "th")
    /\ [][ lastOp' = "toggle"
           => /\ language' \in {"en", "th"} \ {language}
              /\ UNCHANGED <<entries, newEntry, isAdding>> ]_vars

\* a toggle has just brought the selector back to "en", with the form open on a
\* draft and an entry in the list
C9_Witness ==
    /\ lastOp = "toggle"
    /\ language = "en"
    /\ translations = "enTranslations"
    /\ isAdding
    /\ newEntry.title # << >>
    /\ Len(submitted) >= 1

\* C10: once a valid submit has reset the draft, its title and description are
\* empty until the next keystroke, whatever file read completes meanwhile.
C10_NoResurrectedDraft ==
    untouched => (newEntry.title = << >> /\ newEntry.description = << >>)

====
